---- MODULE Spec2Model ----
(***************************************************************************)
(* Model of the changelog core of elephant-docs:                           *)
(*   - internal/pathwalker.go: commitPathIter (the scoped commit iterator) *)
(*   - getChangelog, isPrerelease (git.go) and VersionsAtCommit            *)
(*     (generation.go): the per-version changelog accumulator.             *)
(*   - newModule (git.go): the tracked Versions of a repository.           *)
(*   - Generate (generation.go): the tasks of its errgroup.                *)
(* A repository is a linear, newest-first commit sequence; the hash of a   *)
(* commit is its position in that sequence.                                *)
(***************************************************************************)
EXTENDS Integers, Sequences, FiniteSets, TLC

\* ------------------------------------------------------------------ bounds
MaxCommits == 3
MaxVersions == 3
MaxTags == 3
MaxWorkers == 2
MaxJobs == 3

\* ------------------------------------------------------------- environment
Nil == 0

\* The API whose changelog is computed, as a path of segments.
Api == <<"api">>

ApiPath == <<"api", "a">>
OtherPath == <<"other", "b">>
Paths == {ApiPath, OtherPath}

\* A tree maps every path to the content of its blob, "" when the file is absent.
\* Two contents are enough for a file to change between any two commits.
Absent == ""
Contents == {"x", "y"}

EmptyTree == [p \in Paths |-> Absent]

VARIABLES
  trees,          \* the repository: trees[c] is the tree of commit c, newest first
  modVersions,    \* module.Versions, sorted by descending semantic version
  pathFilter,     \* the predicate the iterator was constructed with
  pc,             \* position of the running invocation
  i,              \* getChangelog: index of the clone loop
  versions,       \* getChangelog: the tracked clones
  inScope,        \* getChangelog: hashes the predicate found subtree-relevant
  accumulators,   \* getChangelog: open windows, as indices into versions
  srcPos,         \* sourceIter: position of the next commit it returns
  currentCommit,  \* commitPathIter.currentCommit
  parentTree,     \* getNextFileCommit: the tree kept for the next round
  yielded,        \* the commit the last Next call returned
  err,            \* the error the invocation ended with, "" if none
  result,         \* the slice the invocation returned, a nil slice being <<>>
  out,            \* history: the commits Next has returned, in order
  evaluated,      \* history: the arguments of every predicate evaluation
  treeReads,      \* history: the commits whose Tree() the iterator obtained, in order
  nextResult,     \* what the last Next call returned: a commit, EOF or an error
  closed,         \* sourceIter: Close was called on it
  first,          \* callers: the outcome of the first getChangelog invocation
  parked,         \* callers: the invocation that is not running, as a frame
  tagRefs,        \* newModule: the tag references of the cloned repository
  tagPos,         \* newModule: position of tagsRefs.ForEach
  module,         \* newModule: the Module under construction
  modErr,         \* newModule: the error it returned, <<>> if none
  tasks,          \* Generate: the state of every task of the errgroup
  queued,         \* Generate: the jobs the producer has still to send
  gCtxDone,       \* Generate: the context of the errgroup is cancelled
  ctxDone,        \* Generate: the context of the caller is cancelled
  grpErr,         \* Generate: the first error a task returned, <<>> if none
  generated,      \* Generate: what it returned, Nil while it runs
  received        \* Generate: per job taken off the channel, how many workers
                  \* received it, the workers rendering it and the calls of
                  \* renderModuleVersionPages for it that returned nil

repoVars == <<trees, modVersions, pathFilter>>

callVars == <<first, parked>>

tagVars == <<tagRefs, tagPos, module, modErr>>

genVars == <<tasks, queued, gCtxDone, ctxDone, grpErr, generated, received>>

\* What an invocation of getChangelog and the iterator never write.
otherVars == <<repoVars, closed, callVars, tagVars, genVars>>

\* The locals of one invocation.
localVars == <<pc, i, versions, inScope, accumulators, srcPos, currentCommit, parentTree,
               yielded, err, result, out, evaluated, treeReads, nextResult>>

vars == <<localVars, otherVars>>

\* ----------------------------------------------------------------- helpers

\* A diff that reports only the files both trees have.
DiffTreeModifiedOnly(a, b) ==
  { [From |-> p, To |-> p] :
      p \in {q \in Paths : a[q] # b[q] /\ a[q] # Absent /\ b[q] # Absent} }

\* object.DiffTree(a, b): one change per path whose blob differs; From names the
\* file in a and To the file in b, the empty name when the side has no file.
DiffTree(a, b) ==
  { [From |-> IF a[p] # Absent THEN p ELSE <<>>, To |-> IF b[p] # Absent THEN p ELSE <<>>] :
      p \in {q \in Paths : a[q] # b[q]} }

\* commitPathIter.hasFileChange: the names handed to the predicate.
ChangeNames(changes) ==
  { IF ch.From = <<>> THEN ch.To ELSE ch.From : ch \in changes }

\* strings.HasPrefix(name, api+"/")
HasApiPrefix(name) ==
  /\ Len(name) > Len(Api)
  /\ SubSeq(name, 1, Len(Api)) = Api

\* A lookup that only asks whether the tree has any file.
HasAnyFile(t) == \E p \in Paths : t[p] # Absent

\* tree.Tree(api) finds the directory: some file lies under it.
HasSubtree(t) == \E p \in Paths : HasApiPrefix(p) /\ t[p] # Absent

\* A lookup that stops at the first version tagged at id.
VersionsAtCommitFirst(id, vs) ==
  LET all == SelectSeq([k \in 1..Len(vs) |-> k], LAMBDA k : vs[k].Commit = id)
  IN IF all = <<>> THEN <<>> ELSE <<Head(all)>>

\* VersionsAtCommit, as the positions in vs of the versions tagged at id.
VersionsAtCommit(id, vs) ==
  SelectSeq([k \in 1..Len(vs) |-> k], LAMBDA k : vs[k].Commit = id)

isPrerelease(v) == v.Pre

\* Variants of the close rule.
DeleteWindowAllStable(e, found, vs) ==
  /\ found # <<>>
  /\ \/ \A n \in 1..Len(found) : ~isPrerelease(vs[found[n]])
     \/ isPrerelease(vs[e])

DeleteWindowAnyTag(e, found, vs) == found # <<>>

DeleteWindowStableOnly(e, found, vs) ==
  \E n \in 1..Len(found) : ~isPrerelease(vs[found[n]])

DeleteWindowPreOnly(e, found, vs) ==
  found # <<>> /\ isPrerelease(vs[e])

DeleteWindowBoth(e, found, vs) ==
  \E n \in 1..Len(found) : ~isPrerelease(vs[found[n]]) /\ isPrerelease(vs[e])

\* A predicate under which slices.DeleteFunc removes nothing.
DeleteWindowNever(e, found, vs) == FALSE

\* The slices.DeleteFunc predicate of the accumulator: window e is closed.
DeleteWindow(e, found, vs) ==
  \E n \in 1..Len(found) : ~isPrerelease(vs[found[n]]) \/ isPrerelease(vs[e])

\* A loop that puts the commit in front of every list.
RECURSIVE AppendToAllFront(_, _, _)
AppendToAllFront(vs, acc, commit) ==
  IF acc = <<>> THEN vs
  ELSE AppendToAllFront([vs EXCEPT ![Head(acc)].Log = <<commit>> \o @], Tail(acc), commit)

\* A loop over accumulators[1:], leaving out the first open window.
AppendToAllButFirst(vs, acc, commit) ==
  [k \in 1..Len(vs) |->
     IF \E n \in 2..Len(acc) : acc[n] = k
     THEN [vs[k] EXCEPT !.Log = Append(@, commit)]
     ELSE vs[k]]

\* The loop over accumulators appending the commit to every open window.
RECURSIVE AppendToAll(_, _, _)
AppendToAll(vs, acc, commit) ==
  IF acc = <<>> THEN vs
  ELSE AppendToAll([vs EXCEPT ![Head(acc)].Log = Append(@, commit)], Tail(acc), commit)

\* A predicate that looks at the changed paths only.
ChangelogFilterPathsOnly(c, names) == \E n \in names : HasApiPrefix(n)

\* A predicate that wants the paths and a tag.
ChangelogFilterBoth(c, names) ==
  LET ok == \E n \in names : HasApiPrefix(n)
      tagCount == Len(VersionsAtCommit(c, versions))
  IN ok /\ tagCount > 0

\* The closure getChangelog hands to the iterator: its return value ...
ChangelogFilter(c, names) ==
  LET ok == \E n \in names : HasApiPrefix(n)
      tagCount == Len(VersionsAtCommit(c, versions))
  IN ok \/ tagCount > 0

\* A predicate that marks every commit it is asked about.
ChangelogMarkAll(c, names) == inScope \cup {c}

\* ... and its effect on inScope.
ChangelogMark(c, names) ==
  IF \E n \in names : HasApiPrefix(n) THEN inScope \cup {c} ELSE inScope

\* An arbitrary predicate of the commit and of the changed paths.
GenericFilter(c, names) ==
  (c \in pathFilter.tagged) # (names \cap pathFilter.watch # {})

PathFilter(c, names) ==
  IF pathFilter.kind = "changelog" THEN ChangelogFilter(c, names)
  ELSE GenericFilter(c, names)

\* ----------------------------------------------------------- initial states

\* The contents of the API file along a history of n commits. Contents are only
\* compared, so they are numbered in order of first appearance.
ApiHistories(n) ==
  { h \in [1..n -> Contents \cup {Absent}] :
      \A c \in 1..n : h[c] = "y" => \E d \in 1..c - 1 : h[d] = "x" }

\* The other file is added by one commit a of the history, or never (a = 0).
OtherHistories(n) ==
  { [c \in 1..n |-> IF c <= a THEN "x" ELSE Absent] : a \in 0..n }

\* The histories of n commits, newest first.
Histories(n) ==
  { [c \in 1..n |-> (ApiPath :> ah[c] @@ OtherPath :> oh[c])] :
      ah \in ApiHistories(n), oh \in OtherHistories(n) }

\* Tag (commit c, pre-release flag) sorts before tag d: newer commit first, stable
\* before pre-release on one commit.
TagBefore(c, d) ==
  \/ c.Commit < d.Commit
  \/ c.Commit = d.Commit /\ (~c.Pre \/ d.Pre)

\* The version tags of a module over n commits, highest version first: the highest
\* version sits on any commit, the others follow the order of their commits.
VersionLists(n) ==
  UNION { { l \in [1..k -> [Commit : 1..n, Pre : BOOLEAN]] :
              \A a, b \in 2..k : a < b => TagBefore(l[a], l[b]) } : k \in 0..MaxVersions }

\* newModule: one ModuleVersion per tag, Log unset, highest version first.
ModuleVersions(l) ==
  [k \in 1..Len(l) |-> [Tag |-> k, Commit |-> l[k].Commit, Pre |-> l[k].Pre, Log |-> <<>>]]

\* No second invocation: nothing is recorded and nothing is parked.
NoOutcome == [done |-> FALSE]

NoFrame == [pc |-> "none"]

CallsIdle ==
  /\ first = NoOutcome
  /\ parked = NoFrame

\* newModule is not running.
TagsIdle ==
  /\ tagRefs = <<>>
  /\ tagPos = 1
  /\ module = [pc |-> "idle"]
  /\ modErr = <<>>

\* Generate is not running.
GenIdle ==
  /\ tasks = <<>>
  /\ queued = 0
  /\ gCtxDone = FALSE
  /\ ctxDone = FALSE
  /\ grpErr = <<>>
  /\ generated = [returned |-> FALSE]
  /\ received = <<>>

IterInit ==
  /\ versions = <<>>
  /\ inScope = {}
  /\ accumulators = <<>>
  /\ currentCommit = Nil
  /\ parentTree = Nil
  /\ yielded = Nil
  /\ err = <<>>
  /\ result = <<>>
  /\ out = <<>>
  /\ evaluated = <<>>
  /\ treeReads = <<>>
  /\ nextResult = "none"

Init ==
  /\ trees \in Histories(MaxCommits)
  /\ modVersions \in { ModuleVersions(l) : l \in VersionLists(Len(trees)) }
  /\ pathFilter = [kind |-> "changelog", tagged |-> {}, watch |-> {}]
  /\ pc = "clone"
  /\ i = 1
  /\ srcPos = Nil
  /\ IterInit
  /\ closed = FALSE
  /\ CallsIdle
  /\ TagsIdle
  /\ GenIdle

InitIter ==
  /\ trees \in UNION { Histories(n) : n \in 0..MaxCommits }
  /\ modVersions = <<>>
  /\ pathFilter \in [kind : {"generic"}, tagged : SUBSET (1..Len(trees)), watch : SUBSET Paths]
  /\ pc = "foreach"
  /\ i = 1
  /\ srcPos = 1
  /\ IterInit
  /\ closed = FALSE
  /\ CallsIdle
  /\ TagsIdle
  /\ GenIdle

\* ------------------------------------------------------------ getChangelog

\* A failing return that hands out the Versions accumulated so far.
ReturnErrorPartial(e) ==
  /\ pc' = "done"
  /\ err' = e
  /\ result' = versions
  /\ i' = 1
  /\ versions' = <<>>
  /\ inScope' = {}
  /\ accumulators' = <<>>
  /\ srcPos' = Nil
  /\ currentCommit' = Nil
  /\ parentTree' = Nil
  /\ yielded' = Nil
  /\ out' = <<>>
  /\ evaluated' = <<>>
  /\ treeReads' = <<>>
  /\ nextResult' = "none"
  /\ UNCHANGED otherVars

\* getChangelog returns nil and the error e; what the invocation held is dropped.
ReturnError(e) ==
  /\ pc' = "done"
  /\ err' = e
  /\ result' = <<>>
  /\ i' = 1
  /\ versions' = <<>>
  /\ inScope' = {}
  /\ accumulators' = <<>>
  /\ srcPos' = Nil
  /\ currentCommit' = Nil
  /\ parentTree' = Nil
  /\ yielded' = Nil
  /\ out' = <<>>
  /\ evaluated' = <<>>
  /\ treeReads' = <<>>
  /\ nextResult' = "none"
  /\ UNCHANGED otherVars

\* if len(module.Versions) == 0 { return nil, nil }
EmptyModule ==
  /\ pc = "clone"
  /\ Len(modVersions) = 0
  /\ pc' = "done"
  /\ result' = <<>>
  /\ UNCHANGED <<otherVars, i, versions, inScope, accumulators, srcPos, currentCommit,
                 parentTree, yielded, err, out, evaluated, treeReads, nextResult>>

\* One iteration of the clone loop: the scope pre-filter.
CloneVersion ==
  /\ pc = "clone"
  /\ i <= Len(modVersions)
  /\ LET m == modVersions[i] IN
     \/ ReturnError(<<"get commit tree", "tree">>)
     \/ ReturnError(<<"failed to list files", "subtree">>)
     \/ /\ i' = i + 1
        /\ versions' = IF HasSubtree(trees[m.Commit])
                       THEN Append(versions, [m EXCEPT !.Log = <<>>])
                       ELSE versions
        /\ UNCHANGED <<otherVars, pc, err, result, inScope, accumulators, srcPos,
                       currentCommit, parentTree, yielded, out, evaluated, treeReads, nextResult>>

\* if len(versions) == 0 { return nil, nil }
NoTrackedVersion ==
  /\ pc = "clone"
  /\ Len(modVersions) > 0
  /\ i > Len(modVersions)
  /\ Len(versions) = 0
  /\ pc' = "done"
  /\ result' = <<>>
  /\ UNCHANGED <<otherVars, i, versions, inScope, accumulators, srcPos, currentCommit,
                 parentTree, yielded, err, out, evaluated, treeReads, nextResult>>

\* A history that starts at the tag commit of the highest Version of the module.
StartLogFromModule ==
  /\ pc = "clone"
  /\ i > Len(modVersions)
  /\ Len(versions) > 0
  /\ \/ ReturnError(<<"get git log", "log">>)
     \/ /\ pc' = "foreach"
        /\ srcPos' = modVersions[1].Commit
        /\ UNCHANGED <<otherVars, i, versions, inScope, accumulators, currentCommit,
                       parentTree, yielded, err, result, out, evaluated, treeReads, nextResult>>

\* A history that starts at the head of the repository.
StartLogFromHead ==
  /\ pc = "clone"
  /\ i > Len(modVersions)
  /\ Len(versions) > 0
  /\ \/ ReturnError(<<"get git log", "log">>)
     \/ /\ pc' = "foreach"
        /\ srcPos' = 1
        /\ UNCHANGED <<otherVars, i, versions, inScope, accumulators, currentCommit,
                       parentTree, yielded, err, result, out, evaluated, treeReads, nextResult>>

\* module.Repo.Log from the tag commit of versions[0]; the iterator is built on it.
StartLog ==
  /\ pc = "clone"
  /\ i > Len(modVersions)
  /\ Len(versions) > 0
  /\ \/ ReturnError(<<"get git log", "log">>)
     \/ /\ pc' = "foreach"
        /\ srcPos' = versions[1].Commit
        /\ UNCHANGED <<otherVars, i, versions, inScope, accumulators, currentCommit,
                       parentTree, yielded, err, result, out, evaluated, treeReads, nextResult>>

\* A callback that opens windows only at subtree-relevant commits.
AccumulateRelevantOnly ==
  /\ pc = "cb"
  /\ pathFilter.kind = "changelog"
  /\ LET found == VersionsAtCommit(yielded, versions)
         kept == SelectSeq(accumulators, LAMBDA e : ~DeleteWindow(e, found, versions))
         open == IF yielded \in inScope THEN kept \o found ELSE kept
     IN /\ accumulators' = open
        /\ versions' = IF yielded \in inScope
                       THEN AppendToAll(versions, open, yielded)
                       ELSE versions
  /\ pc' = "foreach"
  /\ UNCHANGED <<otherVars, i, inScope, srcPos, currentCommit, parentTree, yielded, err,
                 result, out, evaluated, treeReads, nextResult>>

\* A callback that appends before it closes and opens.
AccumulateAppendFirst ==
  /\ pc = "cb"
  /\ pathFilter.kind = "changelog"
  /\ LET found == VersionsAtCommit(yielded, versions)
         kept == SelectSeq(accumulators, LAMBDA e : ~DeleteWindow(e, found, versions))
         open == kept \o found
     IN /\ accumulators' = open
        /\ versions' = IF yielded \in inScope
                       THEN AppendToAll(versions, accumulators, yielded)
                       ELSE versions
  /\ pc' = "foreach"
  /\ UNCHANGED <<otherVars, i, inScope, srcPos, currentCommit, parentTree, yielded, err,
                 result, out, evaluated, treeReads, nextResult>>

\* A callback whose append loop ranges over every tracked Version.
AccumulateAllVersions ==
  /\ pc = "cb"
  /\ pathFilter.kind = "changelog"
  /\ LET found == VersionsAtCommit(yielded, versions)
         kept == SelectSeq(accumulators, LAMBDA e : ~DeleteWindow(e, found, versions))
         open == kept \o found
     IN /\ accumulators' = open
        /\ versions' = IF yielded \in inScope
                       THEN AppendToAll(versions, [k \in 1..Len(versions) |-> k], yielded)
                       ELSE versions
  /\ pc' = "foreach"
  /\ UNCHANGED <<otherVars, i, inScope, srcPos, currentCommit, parentTree, yielded, err,
                 result, out, evaluated, treeReads, nextResult>>

\* The ForEach callback: close, open, append.
Accumulate ==
  /\ pc = "cb"
  /\ pathFilter.kind = "changelog"
  /\ LET found == VersionsAtCommit(yielded, versions)
         kept == SelectSeq(accumulators, LAMBDA e : ~DeleteWindow(e, found, versions))
         open == kept \o found
     IN /\ accumulators' = open
        /\ versions' = IF yielded \in inScope
                       THEN AppendToAll(versions, open, yielded)
                       ELSE versions
  /\ pc' = "foreach"
  /\ UNCHANGED <<otherVars, i, inScope, srcPos, currentCommit, parentTree, yielded, err,
                 result, out, evaluated, treeReads, nextResult>>

\* A return that treats a Version without commits as a failure.
ReturnRejectsEmpty ==
  /\ pc = "foreachDone"
  /\ pathFilter.kind = "changelog"
  /\ pc' = "done"
  /\ IF \E k \in 1..Len(versions) : versions[k].Log = <<>>
     THEN /\ err' = <<"read git log", "empty">>
          /\ result' = <<>>
     ELSE /\ result' = versions
          /\ UNCHANGED err
  /\ UNCHANGED <<otherVars, i, versions, inScope, accumulators, srcPos, currentCommit,
                 parentTree, yielded, out, evaluated, treeReads, nextResult>>

\* ForEach returned nil: return versions, nil
Return ==
  /\ pc = "foreachDone"
  /\ pathFilter.kind = "changelog"
  /\ pc' = "done"
  /\ result' = versions
  /\ UNCHANGED <<otherVars, i, versions, inScope, accumulators, srcPos, currentCommit,
                 parentTree, yielded, err, out, evaluated, treeReads, nextResult>>

\* ---------------------------------------------------------- commitPathIter

\* Next returns the error e with the source left at pos and the trees in reads
\* obtained: the current commit is dropped and ForEach returns the error;
\* getChangelog wraps it and returns (if err != nil { return nil, "read git log:
\* %w" }).
NextFails(e, pos, reads) ==
  IF pathFilter.kind = "changelog"
  THEN ReturnError(<<"read git log", e>>)
  ELSE /\ pc' = "foreachDone"
       /\ err' = <<e>>
       /\ srcPos' = pos
       /\ currentCommit' = Nil
       /\ parentTree' = Nil
       /\ treeReads' = reads
       /\ nextResult' = "error"
       /\ UNCHANGED <<otherVars, i, versions, inScope, accumulators, yielded, result, out,
                      evaluated>>

\* A Next that looks at the first item of the source and leaves it there.
IterNextPeek ==
  /\ pc = "foreach"
  /\ \/ /\ currentCommit # Nil
        /\ pc' = "round"
        /\ parentTree' = Nil
        /\ UNCHANGED <<srcPos, currentCommit, err>>
        /\ UNCHANGED <<otherVars, i, versions, inScope, accumulators, yielded, result, out,
                       evaluated, treeReads, nextResult>>
     \/ /\ currentCommit = Nil
        /\ srcPos <= Len(trees)
        /\ currentCommit' = srcPos
        /\ srcPos' = srcPos
        /\ pc' = "round"
        /\ parentTree' = Nil
        /\ UNCHANGED err
        /\ UNCHANGED <<otherVars, i, versions, inScope, accumulators, yielded, result, out,
                       evaluated, treeReads, nextResult>>
     \/ /\ currentCommit = Nil
        /\ srcPos > Len(trees)
        /\ pc' = "foreachDone"
        /\ parentTree' = Nil
        /\ nextResult' = "EOF"
        /\ UNCHANGED <<srcPos, currentCommit, err>>
        /\ UNCHANGED <<otherVars, i, versions, inScope, accumulators, yielded, result, out,
                       evaluated, treeReads>>
     \/ /\ currentCommit = Nil
        /\ srcPos <= Len(trees)
        /\ NextFails("source", srcPos, treeReads)

\* ForEach calls Next: the first commit is pulled when there is no current one. The
\* source fails only on an item it has; past the last one it reports io.EOF.
IterNext ==
  /\ pc = "foreach"
  /\ \/ /\ currentCommit # Nil
        /\ pc' = "round"
        /\ parentTree' = Nil
        /\ UNCHANGED <<srcPos, currentCommit, err>>
        /\ UNCHANGED <<otherVars, i, versions, inScope, accumulators, yielded, result, out,
                       evaluated, treeReads, nextResult>>
     \/ /\ currentCommit = Nil
        /\ srcPos <= Len(trees)
        /\ currentCommit' = srcPos
        /\ srcPos' = srcPos + 1
        /\ pc' = "round"
        /\ parentTree' = Nil
        /\ UNCHANGED err
        /\ UNCHANGED <<otherVars, i, versions, inScope, accumulators, yielded, result, out,
                       evaluated, treeReads, nextResult>>
     \/ /\ currentCommit = Nil
        /\ srcPos > Len(trees)
        /\ pc' = "foreachDone"
        /\ parentTree' = Nil
        /\ nextResult' = "EOF"
        /\ UNCHANGED <<srcPos, currentCommit, err>>
        /\ UNCHANGED <<otherVars, i, versions, inScope, accumulators, yielded, result, out,
                       evaluated, treeReads>>
     \/ /\ currentCommit = Nil
        /\ srcPos <= Len(trees)
        /\ NextFails("source", srcPos, treeReads)

\* Where a round goes after the predicate was evaluated: return the commit, report
\* the end of the sequence, or loop.
RoundPcStopsAtMiss(found, parentCommit) ==
  IF found THEN "cb" ELSE "foreachDone"

\* A Next that returns after one round.
RoundPcOneRound(found, parentCommit) ==
  IF found \/ parentCommit # Nil THEN "cb" ELSE "foreachDone"

\* A loop that looks for the end of the source before it looks at found.
RoundPcEofFirst(found, parentCommit) ==
  IF parentCommit = Nil THEN "foreachDone"
  ELSE IF found THEN "cb" ELSE "round"

RoundPc(found, parentCommit) ==
  IF found THEN "cb"
  ELSE IF parentCommit = Nil THEN "foreachDone" ELSE "round"

\* A loop that keeps no tree from one round to the next.
KeptTreeNone(found, nextTree) == Nil

\* The tree the local parentTree holds when the next round starts: the tree of the
\* candidate, or none once the function has returned.
KeptTree(found, nextTree) == IF found THEN Nil ELSE nextTree

\* One round of the loop of getNextFileCommit.
IterRound ==
  /\ pc = "round"
  /\ LET parentCommit == IF srcPos <= Len(trees) THEN srcPos ELSE Nil
         currentTree == IF parentTree = Nil THEN currentCommit ELSE parentTree
         nextTree == parentCommit
         changes == DiffTree(trees[currentTree],
                             IF nextTree = Nil THEN EmptyTree ELSE trees[nextTree])
         names == ChangeNames(changes)
         found == PathFilter(currentCommit, names)
         pulled == IF parentCommit = Nil THEN srcPos ELSE srcPos + 1
         readCurrent == IF parentTree = Nil THEN Append(treeReads, currentCommit)
                        ELSE treeReads
         readBoth == IF parentCommit = Nil THEN readCurrent
                     ELSE Append(readCurrent, parentCommit)
         to == RoundPc(found, parentCommit)
     IN \/ /\ parentCommit # Nil
           /\ NextFails("source", srcPos, treeReads)
        \/ /\ parentTree = Nil
           /\ NextFails("tree", pulled, treeReads)
        \/ /\ parentCommit # Nil
           /\ NextFails("tree", pulled, readCurrent)
        \/ NextFails("diff", pulled, readBoth)
        \/ /\ srcPos' = pulled
           /\ treeReads' = readBoth
           /\ evaluated' = Append(evaluated, [commit |-> currentCommit, names |-> names])
           /\ inScope' = IF pathFilter.kind = "changelog"
                         THEN ChangelogMark(currentCommit, names)
                         ELSE inScope
           /\ currentCommit' = parentCommit
           /\ pc' = to
           /\ nextResult' = IF to = "cb" THEN "commit"
                            ELSE IF to = "foreachDone" THEN "EOF" ELSE nextResult
           /\ IF to = "cb"
              THEN /\ yielded' = currentCommit
                   /\ out' = Append(out, currentCommit)
              ELSE UNCHANGED <<yielded, out>>
           /\ parentTree' = KeptTree(found, nextTree)
           /\ UNCHANGED <<otherVars, i, versions, accumulators, result, err>>

\* The callback of a caller that only collects what ForEach hands it.
Collect ==
  /\ pc = "cb"
  /\ pathFilter.kind = "generic"
  /\ pc' = "foreach"
  /\ UNCHANGED <<otherVars, i, versions, inScope, accumulators, srcPos, currentCommit,
                 parentTree, yielded, err, result, out, evaluated, treeReads, nextResult>>

\* A caller that calls Next again on an iterator that returned an error.
NextAgain ==
  /\ pc = "foreachDone"
  /\ pathFilter.kind = "generic"
  /\ err # <<>>
  /\ ~closed
  /\ pc' = "foreach"
  /\ UNCHANGED <<otherVars, i, versions, inScope, accumulators, srcPos, currentCommit,
                 parentTree, yielded, err, result, out, evaluated, treeReads, nextResult>>

\* A caller that calls Next again on an iterator that reported the end.
NextAfterEnd ==
  /\ pc = "foreachDone"
  /\ pathFilter.kind = "generic"
  /\ nextResult = "EOF"
  /\ ~closed
  /\ pc' = "foreach"
  /\ UNCHANGED <<otherVars, i, versions, inScope, accumulators, srcPos, currentCommit,
                 parentTree, yielded, err, result, out, evaluated, treeReads, nextResult>>

\* Close: c.sourceIter.Close()
Close ==
  /\ pc = "foreachDone"
  /\ pathFilter.kind = "generic"
  /\ ~closed
  /\ closed' = TRUE
  /\ UNCHANGED <<repoVars, callVars, tagVars, genVars, localVars>>

\* ----------------------------------------------------------------- callers

\* The locals of the running invocation.
Frame ==
  [pc |-> pc, i |-> i, versions |-> versions, inScope |-> inScope,
   accumulators |-> accumulators, srcPos |-> srcPos, currentCommit |-> currentCommit,
   parentTree |-> parentTree, yielded |-> yielded, err |-> err, result |-> result,
   out |-> out, evaluated |-> evaluated, treeReads |-> treeReads, nextResult |-> nextResult]

\* The locals of an invocation that has taken no step.
NewFrame ==
  [pc |-> "clone", i |-> 1, versions |-> <<>>, inScope |-> {}, accumulators |-> <<>>,
   srcPos |-> Nil, currentCommit |-> Nil, parentTree |-> Nil, yielded |-> Nil,
   err |-> <<>>, result |-> <<>>, out |-> <<>>, evaluated |-> <<>>, treeReads |-> <<>>,
   nextResult |-> "none"]

\* An invocation goes on with the windows and the in-scope set of the process.
ResumeShared(f) ==
  /\ pc' = f.pc
  /\ i' = f.i
  /\ versions' = f.versions
  /\ UNCHANGED <<inScope, accumulators>>
  /\ srcPos' = f.srcPos
  /\ currentCommit' = f.currentCommit
  /\ parentTree' = f.parentTree
  /\ yielded' = f.yielded
  /\ err' = f.err
  /\ result' = f.result
  /\ out' = f.out
  /\ evaluated' = f.evaluated
  /\ treeReads' = f.treeReads
  /\ nextResult' = f.nextResult

\* The invocation with locals f runs: every local is its own.
Resume(f) ==
  /\ pc' = f.pc
  /\ i' = f.i
  /\ versions' = f.versions
  /\ inScope' = f.inScope
  /\ accumulators' = f.accumulators
  /\ srcPos' = f.srcPos
  /\ currentCommit' = f.currentCommit
  /\ parentTree' = f.parentTree
  /\ yielded' = f.yielded
  /\ err' = f.err
  /\ result' = f.result
  /\ out' = f.out
  /\ evaluated' = f.evaluated
  /\ treeReads' = f.treeReads
  /\ nextResult' = f.nextResult

\* What the invocation that returned handed to its caller.
Outcome == [done |-> TRUE, result |-> result]

\* The first invocation has returned Versions; two callers call getChangelog again
\* and start with the window list the first one left.
CallAgainStale ==
  /\ pc = "done"
  /\ err = <<>>
  /\ ~first.done
  /\ first' = Outcome
  /\ Resume([NewFrame EXCEPT !.accumulators = accumulators])
  /\ parked' = NewFrame
  /\ UNCHANGED <<repoVars, closed, tagVars, genVars>>

\* The first invocation has returned without an error; two callers call
\* getChangelog again for the same module and API.
CallAgain ==
  /\ pc = "done"
  /\ err = <<>>
  /\ ~first.done
  /\ first' = Outcome
  /\ Resume(NewFrame)
  /\ parked' = NewFrame
  /\ UNCHANGED <<repoVars, closed, tagVars, genVars>>

\* A scheduler under which the window list and the in-scope set belong to the
\* process: the invocation that goes on finds those of the other one.
SwitchShared ==
  /\ parked # NoFrame
  /\ parked.pc # "done"
  /\ parked' = Frame
  /\ ResumeShared(parked)
  /\ UNCHANGED <<first, repoVars, closed, tagVars, genVars>>

\* The scheduler runs the other invocation, unless it has returned.
Switch ==
  /\ parked # NoFrame
  /\ parked.pc # "done"
  /\ parked' = Frame
  /\ Resume(parked)
  /\ UNCHANGED <<first, repoVars, closed, tagVars, genVars>>

\* The positions of the module Versions whose tagged tree lacks the API directory.
ScopeAbsent ==
  { k \in 1..Len(modVersions) : ~HasSubtree(trees[modVersions[k].Commit]) }

RemoveAt(s, k) == SubSeq(s, 1, k - 1) \o SubSeq(s, k + 1, Len(s))

\* The first invocation has returned without an error; getChangelog is called
\* again for the module of the same repository without the tag of one Version
\* whose tree lacks the API directory.
CallWithoutTag ==
  /\ pc = "done"
  /\ err = <<>>
  /\ ~first.done
  /\ \E k \in ScopeAbsent : modVersions' = RemoveAt(modVersions, k)
  /\ first' = Outcome
  /\ Resume(NewFrame)
  /\ UNCHANGED <<trees, pathFilter, parked, closed, tagVars, genVars>>

\* --------------------------------------------------------------- newModule

\* Tag names, as the tokens between the dots: v1.0.0, v1, v1.1.0-rc1, vx, latest
\* and 1.0.0.
TagNames ==
  { <<"v", "1", "0", "0">>, <<"v", "1">>, <<"v", "1", "1", "0", "-", "rc1">>,
    <<"v", "0", "2">>, <<"v", "x">>, <<"latest">>, <<"1", "0", "0">> }

Digits == {"0", "1", "2"}

DigitValue(d) == IF d = "0" THEN 0 ELSE IF d = "1" THEN 1 ELSE 2

PreLabels == {"rc1"}

\* strings.HasPrefix(name, "v")
HasPrefixV(name) == name # <<>> /\ Head(name) = "v"

\* The number of leading numeric tokens of s.
RECURSIVE LeadingDigits(_)
LeadingDigits(s) ==
  IF s # <<>> /\ Head(s) \in Digits THEN 1 + LeadingDigits(Tail(s)) ELSE 0

\* semver.NewVersion: an optional v, one to three numeric parts (the missing ones
\* are 0), an optional pre-release label after a dash, and nothing else.
NewVersion(name) ==
  LET body == IF HasPrefixV(name) THEN Tail(name) ELSE name
      n == LeadingDigits(body)
      rest == SubSeq(body, n + 1, Len(body))
      part(k) == IF k <= n THEN DigitValue(body[k]) ELSE 0
  IN IF /\ n \in 1..3
        /\ \/ rest = <<>>
           \/ Len(rest) = 2 /\ rest[1] = "-" /\ rest[2] \in PreLabels
     THEN [ok |-> TRUE, core |-> <<part(1), part(2), part(3)>>,
           pre |-> IF rest = <<>> THEN "" ELSE rest[2]]
     ELSE [ok |-> FALSE, core |-> <<>>, pre |-> ""]

\* Version.Compare: major, minor, patch, then a pre-release below its release.
Compare(a, b) ==
  LET differ == { k \in 1..3 : a.core[k] # b.core[k] }
      k0 == CHOOSE k \in differ : \A j \in differ : k <= j
  IN IF differ # {} THEN (IF a.core[k0] < b.core[k0] THEN -1 ELSE 1)
     ELSE IF a.pre = b.pre THEN 0
     ELSE IF a.pre = "" THEN 1
     ELSE IF b.pre = "" THEN -1
     ELSE 0

\* The tag references of a repository: distinct names, each a lightweight tag, an
\* annotated tag, or a reference whose object cannot be resolved to a commit.
TagRefLists ==
  UNION { { l \in [1..n -> [name : TagNames, kind : {"commit", "tag", "broken"}]] :
              \A a, b \in 1..n : a # b => l[a].name # l[b].name } : n \in 0..MaxTags }

\* newModule returns nil and the error e.
ModuleError(e) ==
  /\ module' = [pc |-> "done", Versions |-> <<>>, VersionLookup |-> {}, LatestVersion |-> <<>>]
  /\ modErr' = e
  /\ UNCHANGED <<tagRefs, tagPos>>

\* git.Clone and repo.Tags.
OpenRepository ==
  /\ module.pc = "clone"
  /\ \/ ModuleError(<<"git clone">>)
     \/ ModuleError(<<"list tags">>)
     \/ /\ module' = [module EXCEPT !.pc = "foreach"]
        /\ UNCHANGED <<tagRefs, tagPos, modErr>>
  /\ UNCHANGED <<repoVars, closed, callVars, genVars, localVars>>

\* The ModuleVersion built for the tag reference at position p.
NewModuleVersion(p) ==
  LET name == tagRefs[p].name
      version == NewVersion(name)
  IN [Tag |-> name, Commit |-> p, Version |-> version, IsPrerelease |-> version.pre # ""]

\* A callback for which a tag that does not parse is an error.
TagStepStrict ==
  /\ module.pc = "foreach"
  /\ tagPos <= Len(tagRefs)
  /\ LET ref == tagRefs[tagPos]
         mv == NewModuleVersion(tagPos)
     IN IF ~HasPrefixV(ref.name)
        THEN /\ tagPos' = tagPos + 1
             /\ UNCHANGED <<tagRefs, module, modErr>>
        ELSE IF ~NewVersion(ref.name).ok \/ ref.kind = "broken"
        THEN ModuleError(<<"collect version tags", "get tag commit">>)
        ELSE /\ tagPos' = tagPos + 1
             /\ module' = [module EXCEPT !.Versions = Append(@, mv),
                                         !.VersionLookup = @ \cup {mv.Tag}]
             /\ UNCHANGED <<tagRefs, modErr>>
  /\ UNCHANGED <<repoVars, closed, callVars, genVars, localVars>>

\* One call of the callback of tagsRefs.ForEach.
TagStep ==
  /\ module.pc = "foreach"
  /\ tagPos <= Len(tagRefs)
  /\ LET ref == tagRefs[tagPos]
         mv == NewModuleVersion(tagPos)
     IN IF ~HasPrefixV(ref.name) \/ ~NewVersion(ref.name).ok
        THEN /\ tagPos' = tagPos + 1
             /\ UNCHANGED <<tagRefs, module, modErr>>
        ELSE IF ref.kind = "broken"
        THEN ModuleError(<<"collect version tags", "get tag commit">>)
        ELSE /\ tagPos' = tagPos + 1
             /\ module' = [module EXCEPT !.Versions = Append(@, mv),
                                         !.VersionLookup = @ \cup {mv.Tag}]
             /\ UNCHANGED <<tagRefs, modErr>>
  /\ UNCHANGED <<repoVars, closed, callVars, genVars, localVars>>

\* The orders slices.SortFunc and slices.Reverse can leave the Versions in:
\* descending, Versions that compare equal in any order.
SortedDescending(vs) ==
  { [k \in 1..Len(vs) |-> vs[f[k]]] :
      f \in { g \in [1..Len(vs) -> 1..Len(vs)] :
                /\ \A a, b \in 1..Len(vs) : a # b => g[a] # g[b]
                /\ \A a, b \in 1..Len(vs) :
                     a < b => Compare(vs[g[a]].Version, vs[g[b]].Version) >= 0 } }

\* A loop without the pre-release test: the first Version of vs.
FirstVersion(vs) == IF vs = <<>> THEN <<>> ELSE <<Head(vs)>>

\* The first Version of vs that is no pre-release, <<>> when there is none.
FirstStable(vs) ==
  LET stable == SelectSeq(vs, LAMBDA v : v.Version.pre = "")
  IN IF stable = <<>> THEN <<>> ELSE <<Head(stable)>>

\* The tags are enumerated: sort, reverse, pick LatestVersion, return the module.
SortAndReturn ==
  /\ module.pc = "foreach"
  /\ tagPos > Len(tagRefs)
  /\ \E sorted \in SortedDescending(module.Versions) :
       module' = [module EXCEPT !.pc = "done", !.Versions = sorted,
                                !.LatestVersion = FirstStable(sorted)]
  /\ UNCHANGED <<tagRefs, tagPos, modErr>>
  /\ UNCHANGED <<repoVars, closed, callVars, genVars, localVars>>

\* ---------------------------------------------------------------- Generate

\* The tasks Generate starts in its errgroup.
Assets == <<"assets", 0>>
Index == <<"index", 0>>
Producer == <<"producer", 0>>
Landing == <<"landing", 0>>
Workers == { <<"worker", n>> : n \in 1..MaxWorkers }
Tasks == {Assets, Index, Producer, Landing} \cup Workers

\* A task that returns an error nobody keeps.
FailUnrecorded(t, e) ==
  /\ tasks' = [tasks EXCEPT ![t] = "failed"]
  /\ UNCHANGED <<grpErr, gCtxDone>>

\* A group without a context: the error is kept and nothing is cancelled.
FailWithoutCancel(t, e) ==
  /\ tasks' = [tasks EXCEPT ![t] = "failed"]
  /\ grpErr' = IF grpErr = <<>> THEN e ELSE grpErr
  /\ UNCHANGED gCtxDone

\* errgroup: task t returns the error e; the first error is kept and the context
\* of the group is cancelled.
Fail(t, e) ==
  /\ tasks' = [tasks EXCEPT ![t] = "failed"]
  /\ grpErr' = IF grpErr = <<>> THEN e ELSE grpErr
  /\ gCtxDone' = TRUE

\* errgroup: task t returns nil.
Succeed(t) ==
  /\ tasks' = [tasks EXCEPT ![t] = "ok"]
  /\ UNCHANGED <<grpErr, gCtxDone>>

\* The asset copy, the index page and the landing pages (with the changelogs): each
\* runs to its end or returns its first error.
TaskReturns(t) ==
  /\ t \in {Assets, Index, Landing}
  /\ tasks[t] = "running"
  /\ \/ Succeed(t)
     \/ Fail(t, <<t[1]>>)
  /\ UNCHANGED <<queued, ctxDone, generated, received>>
  /\ UNCHANGED <<repoVars, closed, callVars, tagVars, localVars>>

\* A channel that hands the job to every worker waiting in its range.
HandoffBroadcast(w) ==
  /\ tasks[Producer] = "running"
  /\ queued > 0
  /\ tasks[w] = "running"
  /\ queued' = queued - 1
  /\ LET ready == { v \in Workers : tasks[v] = "running" }
     IN /\ tasks' = [t \in Tasks |-> IF t \in ready THEN "rendering" ELSE tasks[t]]
        /\ received' = Append(received, [receivers |-> Cardinality(ready),
                                         at |-> ready, rendered |-> 0])
  /\ UNCHANGED <<gCtxDone, ctxDone, grpErr, generated>>
  /\ UNCHANGED <<repoVars, closed, callVars, tagVars, localVars>>

\* select: case jobs <- job, received by worker w in its range over jobs: the
\* channel is unbuffered, the send completes with one receive.
Handoff(w) ==
  /\ tasks[Producer] = "running"
  /\ queued > 0
  /\ tasks[w] = "running"
  /\ queued' = queued - 1
  /\ tasks' = [tasks EXCEPT ![w] = "rendering"]
  /\ received' = Append(received, [receivers |-> 1, at |-> {w}, rendered |-> 0])
  /\ UNCHANGED <<gCtxDone, ctxDone, grpErr, generated>>
  /\ UNCHANGED <<repoVars, closed, callVars, tagVars, localVars>>

\* A select that waits for the context of the caller, not for that of the group.
ProducerCancelledByCaller ==
  /\ tasks[Producer] = "running"
  /\ queued > 0
  /\ ctxDone
  /\ Fail(Producer, <<"context canceled">>)
  /\ UNCHANGED <<queued, ctxDone, generated, received>>
  /\ UNCHANGED <<repoVars, closed, callVars, tagVars, localVars>>

\* select: case <-gCtx.Done(): return ctx.Err(), the error of the context of the
\* caller, which is nil unless that one is cancelled; jobs is closed.
ProducerCancelled ==
  /\ tasks[Producer] = "running"
  /\ queued > 0
  /\ gCtxDone
  /\ IF ctxDone THEN Fail(Producer, <<"context canceled">>) ELSE Succeed(Producer)
  /\ UNCHANGED <<queued, ctxDone, generated, received>>
  /\ UNCHANGED <<repoVars, closed, callVars, tagVars, localVars>>

\* Every job is sent: the producer returns nil and jobs is closed.
ProducerDone ==
  /\ tasks[Producer] = "running"
  /\ queued = 0
  /\ Succeed(Producer)
  /\ UNCHANGED <<queued, ctxDone, generated, received>>
  /\ UNCHANGED <<repoVars, closed, callVars, tagVars, localVars>>

\* The job worker w is rendering.
JobOf(w) == CHOOSE j \in 1..Len(received) : w \in received[j].at

\* The call of worker w for its job has returned, n times more with nil.
Rendered(w, n) ==
  [received EXCEPT ![JobOf(w)] = [@ EXCEPT !.at = @ \ {w}, !.rendered = @ + n]]

\* renderModuleVersionPages returns: the worker goes on with its range, or returns
\* the error.
Render(w) ==
  /\ tasks[w] = "rendering"
  /\ \/ /\ tasks' = [tasks EXCEPT ![w] = "running"]
        /\ received' = Rendered(w, 1)
        /\ UNCHANGED <<grpErr, gCtxDone>>
     \/ /\ Fail(w, <<"render">>)
        /\ received' = Rendered(w, 0)
  /\ UNCHANGED <<queued, ctxDone, generated>>
  /\ UNCHANGED <<repoVars, closed, callVars, tagVars, localVars>>

\* jobs is closed (the producer has returned): the range of worker w ends.
WorkerExit(w) ==
  /\ tasks[w] = "running"
  /\ tasks[Producer] # "running"
  /\ Succeed(w)
  /\ UNCHANGED <<queued, ctxDone, generated, received>>
  /\ UNCHANGED <<repoVars, closed, callVars, tagVars, localVars>>

\* The caller cancels its context, and with it the context of the group.
CancelCaller ==
  /\ ~generated.returned
  /\ ~ctxDone
  /\ ctxDone' = TRUE
  /\ gCtxDone' = TRUE
  /\ UNCHANGED <<tasks, queued, grpErr, generated, received>>
  /\ UNCHANGED <<repoVars, closed, callVars, tagVars, localVars>>

\* grp.Wait returns once every task has returned; Generate wraps its error.
Wait ==
  /\ ~generated.returned
  /\ \A t \in Tasks : tasks[t] \in {"ok", "failed"}
  /\ generated' = [returned |-> TRUE,
                   err |-> IF grpErr = <<>> THEN <<>>
                           ELSE <<"render documentation">> \o grpErr]
  /\ UNCHANGED <<tasks, queued, gCtxDone, ctxDone, grpErr, received>>
  /\ UNCHANGED <<repoVars, closed, callVars, tagVars, localVars>>

\* ----------------------------------------------------------- specifications

Next ==
  \/ EmptyModule
  \/ CloneVersion
  \/ NoTrackedVersion
  \/ StartLog
  \/ IterNext
  \/ IterRound
  \/ Accumulate
  \/ Return

Spec == Init /\ [][Next]_vars

NextIter ==
  \/ IterNext
  \/ IterRound
  \/ Collect
  \/ NextAgain
  \/ NextAfterEnd
  \/ Close

SpecIter == InitIter /\ [][NextIter]_vars

\* One ForEach over the iterator, which returns at the first error: Next and every
\* round of its loop run on, and every call they make returns.
NextForEach ==
  \/ IterNext
  \/ IterRound
  \/ Collect

SpecForEach ==
  InitIter /\ [][NextForEach]_vars /\ WF_vars(IterNext) /\ WF_vars(IterRound)

\* Three invocations for one module and API: one alone, then two whose steps
\* interleave. The histories are one commit and one Version below the bounds.
InitCalls ==
  /\ trees \in Histories(MaxCommits - 1)
  /\ modVersions \in { ModuleVersions(l) :
                          l \in { v \in VersionLists(Len(trees)) : Len(v) < MaxVersions } }
  /\ pathFilter = [kind |-> "changelog", tagged |-> {}, watch |-> {}]
  /\ pc = "clone"
  /\ i = 1
  /\ srcPos = Nil
  /\ IterInit
  /\ closed = FALSE
  /\ CallsIdle
  /\ TagsIdle
  /\ GenIdle

NextCalls ==
  \/ Next
  \/ CallAgain
  \/ Switch

SpecCalls == InitCalls /\ [][NextCalls]_vars

\* newModule on a repository with at most MaxTags tags.
InitModule ==
  /\ tagRefs \in TagRefLists
  /\ tagPos = 1
  /\ module = [pc |-> "clone", Versions |-> <<>>, VersionLookup |-> {}, LatestVersion |-> <<>>]
  /\ modErr = <<>>
  /\ trees = <<>>
  /\ modVersions = <<>>
  /\ pathFilter = [kind |-> "none", tagged |-> {}, watch |-> {}]
  /\ pc = "idle"
  /\ i = 1
  /\ srcPos = Nil
  /\ IterInit
  /\ closed = FALSE
  /\ CallsIdle
  /\ GenIdle

NextModule ==
  \/ OpenRepository
  \/ TagStep
  \/ SortAndReturn

SpecModule == InitModule /\ [][NextModule]_vars

\* Generate from the start of its errgroup, with at most MaxJobs module versions.
InitGenerate ==
  /\ tasks = [t \in Tasks |-> "running"]
  /\ queued \in 0..MaxJobs
  /\ gCtxDone = FALSE
  /\ ctxDone = FALSE
  /\ grpErr = <<>>
  /\ generated = [returned |-> FALSE]
  /\ received = <<>>
  /\ trees = <<>>
  /\ modVersions = <<>>
  /\ pathFilter = [kind |-> "none", tagged |-> {}, watch |-> {}]
  /\ pc = "idle"
  /\ i = 1
  /\ srcPos = Nil
  /\ IterInit
  /\ closed = FALSE
  /\ CallsIdle
  /\ TagsIdle

NextGenerate ==
  \/ \E t \in Tasks : TaskReturns(t)
  \/ \E w \in Workers : Handoff(w)
  \/ ProducerCancelled
  \/ ProducerDone
  \/ \E w \in Workers : Render(w)
  \/ \E w \in Workers : WorkerExit(w)
  \/ CancelCaller
  \/ Wait

\* Every goroutine of the group is scheduled and every call it makes returns.
SpecGenerate == InitGenerate /\ [][NextGenerate]_vars /\ WF_vars(NextGenerate)

\* The steps of the goroutines of the group and of grp.Wait.
TaskStep ==
  \/ \E t \in Tasks : TaskReturns(t)
  \/ \E w \in Workers : Handoff(w)
  \/ ProducerCancelled
  \/ ProducerDone
  \/ \E w \in Workers : Render(w)
  \/ \E w \in Workers : WorkerExit(w)
  \/ Wait

\* Generate with a caller that is free never to cancel: every goroutine of the
\* group is scheduled and every call it makes returns.
SpecTasks == InitGenerate /\ [][NextGenerate]_vars /\ WF_vars(TaskStep)

\* Two invocations, the second one for the module without one scope-absent tag.
InitDrop ==
  /\ Init
  /\ ScopeAbsent # {}

NextDrop ==
  \/ Next
  \/ CallWithoutTag

SpecDrop == InitDrop /\ [][NextDrop]_vars

\* ------------------------------------------------- vocabulary of the claims

Range(s) == { s[k] : k \in 1..Len(s) }

IsPrefix(s, t) == Len(s) <= Len(t) /\ SubSeq(t, 1, Len(s)) = s

NoDuplicates(s) == \A j, k \in 1..Len(s) : j # k => s[j] # s[k]

\* The paths that differ between commit c and its successor in the repository, the
\* oldest commit being compared with no tree at all.
RefChanged(c) ==
  { p \in Paths : trees[c][p] # (IF c < Len(trees) THEN trees[c + 1][p] ELSE "") }

\* Commit c changes a file of the API directory.
RefRelevant(c) == ApiPath \in RefChanged(c)

\* The commits of the repository the generic predicate accepts, in order.
Matching ==
  SelectSeq([c \in 1..Len(trees) |-> c], LAMBDA c : GenericFilter(c, RefChanged(c)))

\* C1: with no provider error, the commits Next returns are, in order, exactly the
\* commits of the source the predicate accepts on their diff with their successor
\* (the last one diffed with the empty tree); at every moment what was returned is
\* a prefix of them, and the predicate is evaluated at most once per commit.
C1_IterExactSubsequence ==
  err = <<>> =>
    /\ IsPrefix(out, Matching)
    /\ pc = "foreachDone" => out = Matching
    /\ NoDuplicates([k \in 1..Len(evaluated) |-> evaluated[k].commit])
    /\ \A k \in 1..Len(evaluated) :
         evaluated[k].names = RefChanged(evaluated[k].commit)

C1_Witness ==
  /\ pc = "foreachDone"
  /\ err = <<>>
  /\ Len(trees) = 3
  /\ out = <<1, 3>>
  /\ Len(evaluated) = 3
  /\ pathFilter.watch # {}
  /\ RefChanged(2) # {}

\* The windows that are open, and the tracked Versions tagged at commit c.
Open == Range(accumulators)

Tracked == 1..Len(versions)

TaggedAt(c) == { k \in Tracked : versions[k].Commit = c }

\* The visited commits the accumulator has dealt with.
Processed == IF pc = "cb" THEN Range(out) \ {yielded} ELSE Range(out)

\* The accumulator is between two visited commits, or the invocation has returned:
\* the windows and the lists change nowhere else.
Settled == pc = "foreach" \/ pc = "done"

\* C2: a visited commit carrying a stable tracked tag closes every window that was
\* open before it, whether or not it also carries pre-release tags.
C2_StableClosesAll ==
  [][ (pc = "cb" /\ \E f \in TaggedAt(yielded) : ~versions[f].Pre)
        => \A e \in Open : e \notin Range(accumulators') ]_vars

C2_Witness ==
  /\ pc = "foreach"
  /\ \E s, p, e \in Tracked :
       /\ versions[s].Commit = yielded /\ ~versions[s].Pre
       /\ versions[p].Commit = yielded /\ versions[p].Pre
       /\ versions[e].Commit \in Range(out) \ {yielded}
       /\ ~versions[e].Pre
       /\ e \notin Open
       /\ Open = {s, p}

\* C3: a visited commit whose tracked tags are all pre-releases closes exactly the
\* open pre-release windows; every open stable window stays open and, when the
\* commit is subtree-relevant, receives it.
C3_PrereleaseClosesOnlyPrereleases ==
  [][ (pc = "cb" /\ TaggedAt(yielded) # {}
         /\ \A f \in TaggedAt(yielded) : versions[f].Pre)
        => \A e \in Open :
             IF versions[e].Pre
             THEN e \notin Range(accumulators')
             ELSE /\ e \in Range(accumulators')
                  /\ RefRelevant(yielded)
                       => versions'[e].Log = Append(versions[e].Log, yielded) ]_vars

C3_Witness ==
  /\ pc = "foreach"
  /\ \E s, p, q \in Tracked :
       /\ ~versions[s].Pre /\ versions[p].Pre /\ versions[q].Pre
       /\ versions[s].Commit = 1 /\ versions[p].Commit = 1
       /\ versions[q].Commit = yielded
       /\ yielded = 2
       /\ Open = {s, q}
       /\ versions[s].Log = <<1, 2>>
       /\ versions[p].Log = <<1>>

\* The tracked tag commits strictly older than commit c.
OlderTagCommits(c) == { versions[k].Commit : k \in Tracked } \cap (c + 1 .. Len(trees))

\* C4: once a visited commit is dealt with, the window of a pre-release Version is
\* closed if a visited commit after its tag commit carries a tracked tag of either
\* kind, so its list holds no commit at or older than the first such commit.
C4_PrereleaseEndsAtNextTag ==
  Settled => \A k \in Tracked :
    versions[k].Pre =>
      /\ k \in Open => OlderTagCommits(versions[k].Commit) \cap Processed = {}
      /\ \A c \in Range(versions[k].Log) :
           /\ c >= versions[k].Commit
           /\ \A t \in OlderTagCommits(versions[k].Commit) : c < t

C4_Witness ==
  /\ pc = "done"
  /\ result # <<>>
  /\ \E k, n \in Tracked :
       /\ versions[k].Pre /\ versions[n].Pre
       /\ versions[k].Commit = 1
       /\ versions[n].Commit = 3
       /\ versions[k].Log = <<1, 2>>
       /\ versions[n].Log = <<3>>

OlderStableTagCommits(c) ==
  { versions[k].Commit : k \in {n \in Tracked : ~versions[n].Pre} } \cap (c + 1 .. Len(trees))

\* C5 as stated: the list of a stable Version holds only commits from its tag
\* commit up to, and not including, the next older tracked tag commit of any kind.
C5_Original ==
  pc = "done" =>
    \A k \in 1..Len(result) :
      ~result[k].Pre =>
        \A c \in Range(result[k].Log) :
          /\ c >= result[k].Commit
          /\ \A t \in OlderTagCommits(result[k].Commit) : c < t

\* C5, amended: the list of a stable Version holds only commits from its tag commit
\* up to, and not including, the next older commit that carries a tracked stable
\* tag, where its window is closed; a pre-release tag in between does not end it.
C5_StableEndsAtNextStableTag ==
  Settled => \A k \in Tracked :
    ~versions[k].Pre =>
      /\ k \in Open => OlderStableTagCommits(versions[k].Commit) \cap Processed = {}
      /\ (versions[k].Commit \in Processed
            /\ OlderStableTagCommits(versions[k].Commit) \cap Processed = {}) => k \in Open
      /\ \A c \in Range(versions[k].Log) :
           /\ c >= versions[k].Commit
           /\ \A t \in OlderStableTagCommits(versions[k].Commit) : c < t

C5_Witness ==
  /\ pc = "done"
  /\ \E s, p, t \in 1..Len(result) :
       /\ ~result[s].Pre /\ result[s].Commit = 1
       /\ result[p].Pre /\ result[p].Commit = 2
       /\ ~result[t].Pre /\ result[t].Commit = 3
       /\ result[s].Log = <<1, 2>>
       /\ result[t].Log = <<3>>

\* The nearest tracked tag commit older than c carries pre-release tags only.
NextOlderTagIsPrerelease(c) ==
  /\ OlderTagCommits(c) # {}
  /\ LET t == CHOOSE x \in OlderTagCommits(c) : \A y \in OlderTagCommits(c) : x <= y
     IN \A f \in TaggedAt(t) : versions[f].Pre

\* C6 as stated: Versions sharing one tag commit end with equal lists.
C6_Original ==
  pc = "done" =>
    \A j, k \in 1..Len(result) :
      result[j].Commit = result[k].Commit => result[j].Log = result[k].Log

\* C6, amended: Versions sharing one tag commit have their windows opened at the
\* same visited commit; they are closed at the same visited commit and end with
\* equal lists when they are of the same kind, or when the next older tag commit
\* carries a stable tag; otherwise the pre-release one is closed there alone and
\* its list is a prefix of the stable one's.
C6_CoLocatedWindows ==
  [](Settled => \A j, k \in Tracked :
       versions[j].Commit = versions[k].Commit =>
         /\ (versions[j].Commit \in Processed
               /\ OlderTagCommits(versions[j].Commit) \cap Processed = {})
              => (j \in Open /\ k \in Open)
         /\ (versions[j].Pre = versions[k].Pre
               \/ ~NextOlderTagIsPrerelease(versions[j].Commit))
              => (versions[j].Log = versions[k].Log /\ (j \in Open <=> k \in Open))
         /\ (~versions[j].Pre /\ versions[k].Pre)
              => (IsPrefix(versions[k].Log, versions[j].Log) /\ (k \in Open => j \in Open)))

C6_Witness ==
  /\ pc = "done"
  /\ \E s, p, t \in 1..Len(result) :
       /\ ~result[s].Pre /\ result[s].Commit = 1
       /\ result[p].Pre /\ result[p].Commit = 1
       /\ ~result[t].Pre /\ result[t].Commit = 3
       /\ result[s].Log = <<1, 2>>
       /\ result[p].Log = <<1, 2>>
       /\ result[t].Log = <<3>>

\* C7: a step of the pass changes the list of a Version only by appending the
\* visited commit, which is not yet in the list, is subtree-relevant, and whose
\* window is open once the closes and opens of that commit are done.
C7_AppendOnceWhenRelevantAndOpen ==
  [][ \A k \in Tracked \cap 1..Len(versions') :
        versions'[k].Log # versions[k].Log =>
          /\ pc = "cb"
          /\ versions'[k].Log = Append(versions[k].Log, yielded)
          /\ yielded \notin Range(versions[k].Log)
          /\ RefRelevant(yielded)
          /\ k \in Range(accumulators') ]_vars

C7_Witness ==
  /\ pc = "foreach"
  /\ \E k, n \in Tracked :
       /\ versions[k].Commit = 1
       /\ ~RefRelevant(1)
       /\ versions[n].Commit = 2 /\ versions[n].Pre
       /\ RefRelevant(2)
       /\ versions[k].Log = <<2, 3>>
       /\ versions[n].Log = <<2>>

\* The commits that ended up in the list of result Version k, and the tag commits
\* of the result.
ResultTagCommits == { result[k].Commit : k \in 1..Len(result) }

AllStableDistinct ==
  \A j, k \in 1..Len(result) :
    /\ ~result[k].Pre
    /\ j # k => result[j].Commit # result[k].Commit

\* The nearest tag commit at or newer than c among the tag commits not newer
\* than commit from.
NearestTagFrom(from, c) ==
  LET cand == { t \in ResultTagCommits : from <= t /\ t <= c }
  IN CHOOSE t \in cand : \A u \in cand : u <= t

\* C8 as stated: with stable tags on distinct commits, a subtree-relevant commit at
\* or older than the newest tag commit is in exactly the list of the nearest tag
\* commit at or newer than it, and a commit that touches only other paths and
\* carries no tag is in no list.
C8_Original ==
  (pc = "done" /\ result # <<>> /\ AllStableDistinct) =>
    LET newest == CHOOSE t \in ResultTagCommits : \A u \in ResultTagCommits : t <= u
    IN \A c \in 1..Len(trees) :
         /\ (RefRelevant(c) /\ c >= newest) =>
              \A k \in 1..Len(result) :
                c \in Range(result[k].Log) <=> result[k].Commit = NearestTagFrom(newest, c)
         /\ (~RefRelevant(c) /\ c \notin ResultTagCommits) =>
              \A k \in 1..Len(result) : c \notin Range(result[k].Log)

\* C8, amended: the same, for the subtree-relevant commits at or older than the tag
\* commit of the highest tracked Version, where the traversal starts, the nearest
\* tag commit being taken among the tag commits of the traversal.
C8_StableTagsPartitionTraversal ==
  (pc = "done" /\ result # <<>> /\ AllStableDistinct) =>
    LET start == result[1].Commit
    IN \A c \in 1..Len(trees) :
         /\ (RefRelevant(c) /\ c >= start) =>
              \A k \in 1..Len(result) :
                c \in Range(result[k].Log) <=> result[k].Commit = NearestTagFrom(start, c)
         /\ (~RefRelevant(c) /\ c \notin ResultTagCommits) =>
              \A k \in 1..Len(result) : c \notin Range(result[k].Log)

C8_Witness ==
  /\ pc = "done"
  /\ Len(result) = 2
  /\ AllStableDistinct
  /\ result[1].Commit = 1 /\ result[2].Commit = 2
  /\ ~RefRelevant(2)
  /\ RefChanged(2) = {OtherPath}
  /\ result[1].Log = <<1>>
  /\ result[2].Log = <<3>>

\* The module Versions whose tagged tree has the API directory, in module order.
ScopePresent ==
  SelectSeq([k \in 1..Len(modVersions) |-> k],
            LAMBDA k : trees[modVersions[k].Commit][ApiPath] # "")

\* C9: when the filtered sequence ends without an error, getChangelog returns, with
\* no error, one list per tracked Version; the list of a Version whose tag commit
\* was not visited, or at or after whose tag commit no subtree-relevant commit was
\* visited, is empty.
C9_ExhaustionReturnsEveryVersion ==
  [][ (pc = "foreachDone" /\ err = <<>> /\ pathFilter.kind = "changelog") =>
        /\ pc' = "done"
        /\ err' = <<>>
        /\ [k \in 1..Len(result') |-> result'[k].Tag] = ScopePresent
        /\ \A k \in 1..Len(result') :
             /\ result'[k].Commit \notin Range(out) => result'[k].Log = <<>>
             /\ (\A c \in Range(out) : c >= result'[k].Commit => ~RefRelevant(c))
                  => result'[k].Log = <<>> ]_vars

C9_Witness ==
  /\ pc = "done"
  /\ err = <<>>
  /\ Len(result) = 3
  /\ result[1].Commit = 2 /\ result[1].Log = <<>> /\ ~RefRelevant(2)
  /\ result[2].Commit = 1 /\ result[2].Log = <<>> /\ RefRelevant(1)
  /\ result[3].Commit = 3 /\ result[3].Log = <<3>> /\ ~result[3].Pre

\* C10: the tracked Versions are, at every moment, the module Versions examined so
\* far whose tagged tree has the API directory; an invocation that ends without an
\* error returns exactly those of the module, and one that ends with an error, as
\* after a failed tree lookup, returns nothing.
C10_ScopeAbsentExcluded ==
  [](/\ [k \in 1..Len(versions) |-> versions[k].Tag]
          = SelectSeq(ScopePresent, LAMBDA k : k < i)
     /\ pc = "done" =>
          IF err = <<>>
          THEN [k \in 1..Len(result) |-> result[k].Tag] = ScopePresent
          ELSE result = <<>>)

C10_Witness ==
  /\ pc = "done"
  /\ err = <<>>
  /\ Len(modVersions) = 3
  /\ Len(result) = 2
  /\ result[1].Tag = 2
  /\ result[2].Tag = 3
  /\ trees[modVersions[1].Commit][OtherPath] # ""

\* The wrappers getChangelog puts around the failure of a provider operation.
Wrapped ==
  { <<"get commit tree", "tree">>, <<"failed to list files", "subtree">>,
    <<"get git log", "log">>, <<"read git log", "source">>, <<"read git log", "tree">>,
    <<"read git log", "diff">> }

\* C14: when a tree lookup, the history retrieval, a read of the history or a diff
\* fails, the invocation ends in that step with the failure, wrapped by the
\* operation that failed, and with no result; an invocation that ended with an
\* error holds no result, whatever had been accumulated.
C14_FailureReturnsNoResult ==
  [][ /\ err' # err =>
           /\ pc' = "done"
           /\ result' = <<>>
           /\ err' \in Wrapped
           /\ (err'[1] = "read git log") <=> (pc \in {"foreach", "round"})
      /\ (pc' = "done" /\ err' # <<>>) => result' = <<>>
      /\ result' # <<>> => err' = <<>> ]_vars

C14_Witness ==
  /\ pc = "done"
  /\ err = <<"read git log", "diff">>
  /\ result = <<>>
  /\ Len(ScopePresent) = 2
  /\ RefRelevant(1)

\* C18: a result lists the tracked Versions in the order of module.Versions, which
\* is descending precedence, the scope-absent ones left out; the commits of every
\* list are in traversal order, newest first, at every moment of the pass.
C18_ResultNewestFirst ==
  /\ (pc = "done" /\ err = <<>>) =>
       /\ \A j, k \in 1..Len(result) : j < k => result[j].Tag < result[k].Tag
       /\ \A k \in 1..Len(result) :
            /\ modVersions[result[k].Tag].Commit = result[k].Commit
            /\ HasSubtree(trees[result[k].Commit])
       /\ \A m \in 1..Len(modVersions) :
            HasSubtree(trees[modVersions[m].Commit])
              => \E k \in 1..Len(result) : result[k].Tag = m
  /\ Settled =>
       \A k \in Tracked :
         \A a, b \in 1..Len(versions[k].Log) :
           a < b => versions[k].Log[a] < versions[k].Log[b]

C18_Witness ==
  /\ pc = "done"
  /\ err = <<>>
  /\ Len(modVersions) = 3
  /\ Len(result) = 2
  /\ result[1].Tag = 1 /\ result[2].Tag = 3
  /\ result[1].Commit = 1 /\ result[2].Commit = 3
  /\ result[1].Log = <<1, 2>>
  /\ result[2].Log = <<3>>

\* C20: at a visited commit that carries tracked tags and is not subtree-relevant, a
\* window is opened for each of its Versions and no list changes; a window opened
\* at such a commit receives every later visited subtree-relevant commit for as
\* long as it stays open.
C20_IrrelevantTagCommitOpensWindow ==
  [][ pc = "cb" =>
        /\ (TaggedAt(yielded) # {} /\ ~RefRelevant(yielded)) =>
             /\ TaggedAt(yielded) \subseteq Range(accumulators')
             /\ versions' = versions
        /\ RefRelevant(yielded) =>
             \A k \in Open :
               (~RefRelevant(versions[k].Commit) /\ k \in Range(accumulators'))
                 => versions'[k].Log = Append(versions[k].Log, yielded) ]_vars

C20_Witness ==
  /\ pc = "done"
  /\ Len(result) = 1
  /\ result[1].Commit = 1
  /\ RefChanged(1) = {}
  /\ RefChanged(2) = {OtherPath}
  /\ result[1].Log = <<3>>

\* getChangelog has returned after it obtained the history iterator: it returned
\* Versions, or the error of a read of the history.
ReturnedWithIterator ==
  /\ pc = "done"
  /\ \/ result # <<>>
     \/ err # <<>> /\ err[1] = "read git log"

\* C15 as stated: a failure inside the iterator is returned by Next unchanged, and
\* once Next has returned an error no later Next call returns a commit.
C15_Original ==
  err # <<>> =>
    /\ err \in {<<"source">>, <<"tree">>, <<"diff">>}
    /\ pc # "cb"

\* C16 as stated: an invocation that obtained the history iterator has closed it
\* by the time it returns, with Versions or with an error.
C16_Original ==
  ReturnedWithIterator => closed

C11_ExclusionPerturbsNothing ==
  /\ \A k \in Range(accumulators) : HasSubtree(trees[versions[k].Commit])
  /\ (first.done /\ pc = "done" /\ err = <<>>) => result = first.result

C11_Witness ==
  /\ first.done
  /\ pc = "done"
  /\ err = <<>>
  /\ Len(modVersions) = 2
  /\ ~HasSubtree(trees[2])
  /\ Len(result) = 2
  /\ result[1].Commit = 1 /\ result[1].Log = <<1, 2>>
  /\ result[2].Commit = 3 /\ result[2].Log = <<3>>

\* C19: in a call of the tag callback, a Version is added only for a tag whose name
\* parses, and it is the Version of that tag; a tag whose name does not parse is
\* passed over with the module and the error untouched; when the commit of a tag
\* the callback resolves (a name with the v prefix that parses) cannot be
\* resolved, newModule returns an error and no module, and it returns an error
\* from the enumeration in no other case.
C19_UnparsableSkippedBrokenAborts ==
  [][ (module.pc = "foreach" /\ tagPos <= Len(tagRefs)) =>
        LET ref == tagRefs[tagPos]
            parses == NewVersion(ref.name).ok
        IN /\ (module'.pc = "foreach" /\ module'.Versions # module.Versions) =>
                /\ parses
                /\ module'.Versions = Append(module.Versions, NewModuleVersion(tagPos))
           /\ \A k \in 1..Len(module'.Versions) :
                NewVersion(module'.Versions[k].Tag).ok
           /\ ~parses =>
                /\ module' = module
                /\ modErr' = <<>>
                /\ tagPos' = tagPos + 1
           /\ (HasPrefixV(ref.name) /\ parses /\ ref.kind = "broken") =>
                /\ module'.pc = "done"
                /\ module'.Versions = <<>>
                /\ modErr' = <<"collect version tags", "get tag commit">>
           /\ modErr' # <<>> => (parses /\ ref.kind = "broken") ]_vars

C19_Witness ==
  /\ module.pc = "done"
  /\ modErr = <<>>
  /\ Len(tagRefs) = 3
  /\ tagRefs[1] = [name |-> <<"v", "x">>, kind |-> "broken"]
  /\ tagRefs[2] = [name |-> <<"latest">>, kind |-> "commit"]
  /\ tagRefs[3] = [name |-> <<"v", "1", "1", "0", "-", "rc1">>, kind |-> "tag"]
  /\ Len(module.Versions) = 1
  /\ module.Versions[1].Commit = 3
  /\ module.Versions[1].IsPrerelease
  /\ module.LatestVersion = <<>>

SomeTaskFailed == \E t \in Tasks : tasks[t] = "failed"

AllTasksStopped == \A t \in Tasks : tasks[t] \in {"ok", "failed"}

\* C17: Generate returns only after every task has stopped, and with an error when
\* a task has failed; once a task has failed, Generate does return, with an error.
C17_TaskFailureFailsGenerate ==
  /\ [](generated.returned =>
          /\ AllTasksStopped
          /\ SomeTaskFailed => generated.err # <<>>)
  /\ (SomeTaskFailed ~> (generated.returned /\ generated.err # <<>> /\ AllTasksStopped))

C17_Witness ==
  /\ generated.returned
  /\ generated.err = <<"render documentation", "render">>
  /\ tasks[Landing] = "failed"
  /\ tasks[Producer] = "ok"
  /\ tasks[<<"worker", 1>>] = "failed"
  /\ tasks[<<"worker", 2>>] = "ok"
  /\ queued = 1
  /\ ~ctxDone

\* The windows the close rule ends at a visited commit that carries the tracked
\* Versions found.
ClosedBy(found) ==
  { e \in Open : \/ \E f \in found : ~versions[f].Pre
                 \/ found # {} /\ versions[e].Pre }

\* C21: at a visited subtree-relevant commit that carries tracked tags, the close
\* step comes first, the open step second and the append last: the list of every
\* Version tagged there becomes the commit alone and its window is open, an older
\* window the close rule spares stays open and receives the commit, and a window
\* the close rule ends is closed and its list is left as it was.
C21_CloseOpenAppend ==
  [][ (pc = "cb" /\ RefRelevant(yielded) /\ TaggedAt(yielded) # {}) =>
        /\ \A f \in TaggedAt(yielded) :
             /\ versions'[f].Log = <<yielded>>
             /\ f \in Range(accumulators')
        /\ \A e \in Open \ ClosedBy(TaggedAt(yielded)) :
             /\ versions'[e].Log = Append(versions[e].Log, yielded)
             /\ e \in Range(accumulators')
        /\ \A e \in ClosedBy(TaggedAt(yielded)) :
             /\ versions'[e].Log = versions[e].Log
             /\ e \notin Range(accumulators') ]_vars

C21_Witness ==
  /\ pc = "foreach"
  /\ yielded = 2
  /\ RefRelevant(2)
  /\ \E s, p, q \in Tracked :
       /\ ~versions[s].Pre /\ versions[s].Commit = 1
       /\ versions[p].Pre /\ versions[p].Commit = 1
       /\ versions[q].Pre /\ versions[q].Commit = 2
       /\ accumulators = <<s, q>>
       /\ versions[s].Log = <<1, 2>>
       /\ versions[p].Log = <<1>>
       /\ versions[q].Log = <<2>>

\* C22: at a visited commit an open window e is closed exactly when the commit
\* carries a tracked Version f such that f is stable or e is a pre-release; a
\* visited commit without a tracked tag leaves the open windows as they were.
C22_CloseRule ==
  [][ pc = "cb" =>
        /\ \A e \in Open :
             e \notin Range(accumulators')
               <=> \E f \in TaggedAt(yielded) : ~versions[f].Pre \/ versions[e].Pre
        /\ TaggedAt(yielded) = {} => accumulators' = accumulators ]_vars

C22_Witness ==
  /\ pc = "foreach"
  /\ yielded = 3
  /\ TaggedAt(3) = {}
  /\ \E p, s \in Tracked :
       /\ versions[p].Pre /\ versions[p].Commit = 1
       /\ ~versions[s].Pre /\ versions[s].Commit = 2
       /\ accumulators = <<s>>
       /\ versions[p].Log = <<1>>
       /\ versions[s].Log = <<2, 3>>

\* C23: a window is opened only by the step that deals with the tag commit of its
\* Version, which is visited once, so it is in the window list at most once; once
\* that commit is dealt with and the window is no longer open, no later step of
\* the pass opens it again or changes the list of its Version.
C23_ClosedWindowFrozen ==
  [][ /\ NoDuplicates(accumulators')
      /\ \A k \in Tracked \cap 1..Len(versions') :
           /\ (k \notin Open /\ k \in Range(accumulators')) =>
                /\ pc = "cb"
                /\ versions[k].Commit = yielded
                /\ yielded \notin Processed
                /\ versions[k].Log = <<>>
           /\ (k \notin Open /\ versions[k].Commit \in Processed) =>
                /\ k \notin Range(accumulators')
                /\ versions'[k].Log = versions[k].Log ]_vars

C23_Witness ==
  /\ pc = "foreach"
  /\ yielded = 3
  /\ TaggedAt(3) = {}
  /\ \E p, q \in Tracked :
       /\ versions[p].Pre /\ versions[p].Commit = 1
       /\ versions[q].Pre /\ versions[q].Commit = 2
       /\ accumulators = <<q>>
       /\ versions[p].Log = <<1>>
       /\ versions[q].Log = <<2, 3>>

\* The traversed commits, from the tag commit of the first tracked Version to the
\* oldest one, that are subtree-relevant or carry a tracked tag.
Visible ==
  SelectSeq([n \in 1..Len(trees) - versions[1].Commit + 1 |-> versions[1].Commit + n - 1],
            LAMBDA c : RefRelevant(c) \/ TaggedAt(c) # {})

\* The pass of an invocation with tracked Versions is under way or has ended
\* without an error.
InPass ==
  /\ versions # <<>>
  /\ pc \in {"foreach", "round", "cb", "foreachDone"} \/ (pc = "done" /\ err = <<>>)

\* C24: the commits handed to the accumulator are, in order, the traversed commits
\* that are subtree-relevant or carry the tag of a tracked Version, and all of them
\* once the sequence has ended; so by then the tag commit of every tracked Version
\* at or older than the start of the traversal was visited, whatever it changed,
\* and a window whose tag commit is dealt with, no older tag commit being dealt
\* with yet, is open.
C24_FilteredSequenceExact ==
  [](InPass =>
       /\ IsPrefix(out, Visible)
       /\ pc \in {"foreachDone", "done"} =>
            /\ out = Visible
            /\ \A k \in Tracked :
                 versions[k].Commit >= versions[1].Commit => versions[k].Commit \in Range(out)
       /\ Settled =>
            \A k \in Tracked :
              (versions[k].Commit \in Processed
                 /\ OlderTagCommits(versions[k].Commit) \cap Processed = {}) => k \in Open)

C24_Witness ==
  /\ pc = "done"
  /\ err = <<>>
  /\ Len(result) = 2
  /\ result[1].Commit = 1 /\ RefChanged(1) = {OtherPath}
  /\ result[2].Commit = 2 /\ RefChanged(2) = {}
  /\ RefRelevant(3)
  /\ out = <<1, 2, 3>>
  /\ accumulators = <<2>>
  /\ result[1].Log = <<>>
  /\ result[2].Log = <<3>>

\* The files of the oldest commit of the source.
OldestPaths == { p \in Paths : trees[Len(trees)][p] # Absent }

\* C25: the oldest commit of the source, for which the source has no successor, is
\* evaluated with every path of its tree as changed, as after a diff with the
\* empty tree, and it is returned exactly when the predicate accepts it with that
\* path set.
C25_OldestDiffedWithEmptyTree ==
  /\ \A k \in 1..Len(evaluated) :
       evaluated[k].commit = Len(trees) => evaluated[k].names = OldestPaths
  /\ Len(trees) \in Range(out) => GenericFilter(Len(trees), OldestPaths)
  /\ \A k \in 1..Len(evaluated) :
       (evaluated[k].commit = Len(trees) /\ GenericFilter(Len(trees), OldestPaths))
         => Len(trees) \in Range(out)

C25_Witness ==
  /\ pc = "cb"
  /\ Len(trees) = 3
  /\ trees[2] = trees[3]
  /\ yielded = 3
  /\ evaluated[Len(evaluated)] = [commit |-> 3, names |-> Paths]
  /\ pathFilter.watch = {OtherPath}
  /\ pathFilter.tagged = {}
  /\ out = <<3>>

\* C26: a round that evaluates a commit the predicate rejects returns nothing and
\* goes on with the next commit of the source inside the same Next call, however
\* many such rounds follow each other, and the call returns only with the first
\* commit the predicate accepts or, after the oldest commit, with EOF; every Next
\* call returns.
C26_NextSkipsRunsAndReturns ==
  /\ [][ (pc = "round" /\ Len(evaluated') = Len(evaluated) + 1) =>
          IF GenericFilter(currentCommit, RefChanged(currentCommit))
          THEN /\ pc' = "cb"
               /\ nextResult' = "commit"
               /\ yielded' = currentCommit
               /\ out' = Append(out, currentCommit)
          ELSE /\ out' = out
               /\ yielded' = yielded
               /\ IF currentCommit < Len(trees)
                  THEN /\ pc' = "round"
                       /\ nextResult' = nextResult
                       /\ currentCommit' = currentCommit + 1
                  ELSE /\ pc' = "foreachDone"
                       /\ nextResult' = "EOF" ]_vars
  /\ (pc \in {"foreach", "round"}) ~> (pc \in {"cb", "foreachDone"})

C26_Witness ==
  /\ pc = "cb"
  /\ Len(trees) = 3
  /\ nextResult = "commit"
  /\ yielded = 3
  /\ out = <<3>>
  /\ [k \in 1..Len(evaluated) |-> evaluated[k].commit] = <<1, 2, 3>>
  /\ RefChanged(1) # {}
  /\ RefChanged(2) # {}

\* Next reports the end of the sequence in this step.
ReportsEOF ==
  /\ pc \in {"foreach", "round"}
  /\ pc' = "foreachDone"
  /\ nextResult' = "EOF"

\* C27 as stated, for a pass without a provider failure: when Next has reported
\* the end of the sequence the source is exhausted and either the predicate was
\* never evaluated, the source being empty, or the commit it was last evaluated
\* on did not match.
C27_Original ==
  (pc = "foreachDone" /\ nextResult = "EOF" /\ err = <<>>) =>
    /\ srcPos > Len(trees)
    /\ IF evaluated = <<>> THEN Len(trees) = 0
       ELSE ~GenericFilter(evaluated[Len(evaluated)].commit,
                           evaluated[Len(evaluated)].names)

\* C27, amended: Next reports the end of the sequence exactly when the source is
\* exhausted and no commit is left to return: in the call that evaluated the
\* oldest commit and found it not to match, or in a call that starts without a
\* current commit on an exhausted source, which is the call after the one that
\* returned the oldest commit, or any call on an empty source, the predicate
\* never being evaluated; once the end is reported every later Next call reports
\* it again and returns no commit.
C27_EndWhenNothingLeft ==
  [][ /\ ReportsEOF =>
           /\ srcPos' > Len(trees)
           /\ currentCommit' = Nil
           /\ out' = out
           /\ IF pc = "round"
              THEN /\ currentCommit = Len(trees)
                   /\ evaluated' = Append(evaluated, [commit |-> currentCommit,
                                                      names |-> OldestPaths])
                   /\ ~GenericFilter(currentCommit, OldestPaths)
              ELSE /\ currentCommit = Nil
                   /\ srcPos > Len(trees)
                   /\ evaluated' = evaluated
                   /\ Len(trees) = 0 => evaluated = <<>>
      /\ (pc = "round" /\ Len(evaluated') = Len(evaluated) + 1 /\ srcPos > Len(trees)
            /\ ~GenericFilter(currentCommit, OldestPaths)) => ReportsEOF
      /\ (pc = "foreach" /\ currentCommit = Nil /\ srcPos > Len(trees)) => ReportsEOF
      /\ nextResult = "EOF" =>
           /\ nextResult' = "EOF"
           /\ out' = out
           /\ pc' \in {"foreach", "foreachDone"} ]_vars

C27_Witness ==
  /\ pc = "foreachDone"
  /\ nextResult = "EOF"
  /\ err = <<>>
  /\ Len(trees) = 3
  /\ out = <<1, 3>>
  /\ evaluated[Len(evaluated)].commit = 3
  /\ GenericFilter(3, OldestPaths)
  /\ ~closed

\* How many times the iterator obtained the tree of commit c.
TreeReadCount(c) == Cardinality({ k \in 1..Len(treeReads) : treeReads[k] = c })

\* C28 as stated, for a pass without a provider failure: every round but the first
\* of the pass starts with the tree the round before obtained for its candidate,
\* and the tree of no commit is obtained twice.
C28_Original ==
  err = <<>> =>
    /\ (pc = "round" /\ evaluated # <<>>) => parentTree = currentCommit
    /\ \A c \in 1..Len(trees) : TreeReadCount(c) <= 1

\* C28, amended: the tree obtained for the candidate in one round is the current
\* tree of the next round of the same Next call, and only the first round of a
\* Next call obtains the tree of its current commit itself, also when the call
\* before obtained it as the candidate of the round that returned; so the tree of
\* a commit is obtained at most twice, and twice only for the commit that follows
\* a returned one.
C28_TreeReusedWithinCall ==
  /\ (pc = "round" /\ parentTree # Nil) =>
       /\ parentTree = currentCommit
       /\ treeReads # <<>>
       /\ treeReads[Len(treeReads)] = currentCommit
       /\ evaluated # <<>>
       /\ evaluated[Len(evaluated)].commit = currentCommit - 1
       /\ currentCommit - 1 \notin Range(out)
  /\ (pc = "round" /\ parentTree = Nil) =>
       \/ TreeReadCount(currentCommit) = 0
       \/ TreeReadCount(currentCommit) = 1 /\ out # <<>> /\ out[Len(out)] = currentCommit - 1
  /\ \A c \in 1..Len(trees) :
       /\ TreeReadCount(c) <= 2
       /\ TreeReadCount(c) = 2 => c - 1 \in Range(out)

C28_Witness ==
  /\ pc = "foreachDone"
  /\ nextResult = "EOF"
  /\ err = <<>>
  /\ Len(trees) = 3
  /\ out = <<1>>
  /\ treeReads = <<1, 2, 2, 3>>
  /\ Len(evaluated) = 3

\* The commits the predicate was evaluated on, in order.
EvaluatedCommits == [k \in 1..Len(evaluated) |-> evaluated[k].commit]

StrictlyIncreasing(q) == \A j, k \in 1..Len(q) : j < k => q[j] < q[k]

\* C29: before the first Next call nothing is pulled from the source; the source
\* is always exactly one item past the current commit, so when Next returns
\* commit k of the source, k + 1 items are pulled, or k when k is the oldest one
\* and the source has reported its end; a step pulls at most one item and none
\* is pulled again: the source never moves back and the commits evaluated and
\* returned are in source order, each once.
C29_LazyForwardOnly ==
  /\ [](/\ (nextResult = "none" /\ pc = "foreach") => (srcPos = 1 /\ currentCommit = Nil)
        /\ currentCommit # Nil => srcPos = currentCommit + 1
        /\ pc = "cb" =>
             IF yielded < Len(trees)
             THEN srcPos - 1 = yielded + 1 /\ currentCommit = yielded + 1
             ELSE srcPos - 1 = yielded /\ currentCommit = Nil
        /\ srcPos <= Len(trees) + 1
        /\ StrictlyIncreasing(EvaluatedCommits)
        /\ StrictlyIncreasing(out)
        /\ \A c \in Range(EvaluatedCommits) \cup Range(out) : c < srcPos)
  /\ [][srcPos' \in {srcPos, srcPos + 1}]_vars

C29_Witness ==
  /\ pc = "cb"
  /\ Len(trees) = 3
  /\ yielded = 2
  /\ srcPos = 4
  /\ currentCommit = 3
  /\ out = <<1, 2>>
  /\ err = <<>>

\* Some worker receives a job in this step and starts to render it.
StartsRendering == \E w \in Workers : tasks[w] # "rendering" /\ tasks'[w] = "rendering"

\* C30 as stated: once a task has failed, the producer hands out no job and no
\* worker starts to render one.
C30_Original ==
  [][ SomeTaskFailed => (queued' = queued /\ ~StartsRendering) ]_vars

\* C30, amended: once a task has failed the context of the group is cancelled, so
\* the producer can stop at every job it has still to hand out, and it does stop;
\* once it has stopped no job is handed out and no worker starts to render one.
\* Until it stops it may still hand a job to a worker that is receiving, one job
\* a step and never to a worker that has returned.
C30_ProducerStopsOnCancel ==
  /\ [](SomeTaskFailed => gCtxDone)
  /\ [][ /\ tasks[Producer] # "running" => (queued' = queued /\ ~StartsRendering)
         /\ queued' # queued =>
              /\ queued' = queued - 1
              /\ \E w \in Workers :
                   /\ tasks[w] = "running"
                   /\ tasks' = [tasks EXCEPT ![w] = "rendering"]
         /\ StartsRendering => queued' = queued - 1 ]_vars
  /\ (SomeTaskFailed ~> tasks[Producer] # "running")

C30_Witness ==
  /\ generated.returned
  /\ generated.err = <<"render documentation", "index">>
  /\ tasks[Index] = "failed"
  /\ tasks[Producer] = "ok"
  /\ \A w \in Workers : tasks[w] = "ok"
  /\ queued = MaxJobs
  /\ ~ctxDone

\* C31: at every point of a getChangelog pass the open pre-release windows were
\* all opened at one commit, and the open stable windows were all opened at one
\* commit: open windows of the same kind belong to tags on the same commit.
C31_OpenWindowsOfAKindCoLocated ==
  [](\A j, k \in Open :
       versions[j].Pre = versions[k].Pre => versions[j].Commit = versions[k].Commit)

C31_Witness ==
  /\ pc = "foreach"
  /\ Len(out) = 2
  /\ \E s, p, q \in Open :
       /\ p # q
       /\ ~versions[s].Pre /\ versions[s].Commit = 1
       /\ versions[p].Pre /\ versions[p].Commit = 2
       /\ versions[q].Pre /\ versions[q].Commit = 2

\* C32: the traversal starts at the tag commit of the first tracked Version, the
\* highest one left after the scope exclusion, so the first visited commit is that
\* tag commit; once a visited commit is dealt with some window is open, and every
\* subtree-relevant visited commit dealt with is in the list of some Version.
C32_WindowOpenFromFirstVisit ==
  [](InPass =>
       /\ out # <<>> => out[1] = versions[1].Commit
       /\ Processed # {} => Open # {}
       /\ \A c \in Processed :
            RefRelevant(c) => \E k \in Tracked : c \in Range(versions[k].Log))

C32_Witness ==
  /\ pc = "done"
  /\ err = <<>>
  /\ RefRelevant(1)
  /\ out = <<2, 3>>
  /\ RefRelevant(2) /\ RefRelevant(3)
  /\ Len(result) = 2
  /\ result[1].Pre /\ result[1].Commit = 2 /\ result[1].Log = <<2>>
  /\ ~result[2].Pre /\ result[2].Commit = 3 /\ result[2].Log = <<3>>
  /\ accumulators = <<2>>

\* The subtree-relevant commits dealt with so far that are at or older than
\* commit t, in traversal order.
RelevantFrom(t) ==
  SelectSeq(out, LAMBDA c : c \in Processed /\ c >= t /\ RefRelevant(c))

\* The visited commits dealt with, older than the tag commit of Version k, whose
\* tracked tags close the window of k.
ClosingCommits(k) ==
  { c \in Processed :
      /\ c > versions[k].Commit
      /\ \E f \in TaggedAt(c) : ~versions[f].Pre \/ versions[k].Pre }

\* C33: the list of a Version is a contiguous run of the subtree-relevant visited
\* commits in traversal order: it starts with the first of them at or older than
\* the tag commit of the Version and holds every one of them visited before the
\* window of the Version is closed, and none from there on; the list of a
\* Version whose tag commit is not visited is empty.
C33_ListIsContiguousRun ==
  []((InPass /\ Settled) =>
       \A k \in Tracked :
         LET run == RelevantFrom(versions[k].Commit)
             closing == ClosingCommits(k)
             n == Len(versions[k].Log)
         IN /\ n <= Len(run)
            /\ \A j \in 1..n : versions[k].Log[j] = run[j]
            /\ \A j \in 1..Len(run) :
                 j <= n <=> (versions[k].Commit \in Processed
                               /\ \A d \in closing : run[j] < d))

C33_Witness ==
  /\ pc = "done"
  /\ err = <<>>
  /\ out = <<1, 2, 3>>
  /\ \A c \in 1..3 : RefRelevant(c)
  /\ \E s, p, t \in 1..Len(result) :
       /\ ~result[s].Pre /\ result[s].Commit = 1 /\ result[s].Log = <<1, 2>>
       /\ result[p].Pre /\ result[p].Commit = 2 /\ result[p].Log = <<2>>
       /\ ~result[t].Pre /\ result[t].Commit = 3 /\ result[t].Log = <<3>>

\* C34: Generate terminates whatever tasks succeed or fail and whether or not the
\* caller cancels: until it has returned some goroutine of the group or grp.Wait
\* can take a step; a producer with a job to send and no worker left to receive it
\* finds the context of the group cancelled; the producer always returns, and
\* grp.Wait returns, after every task has.
C34_GenerateTerminates ==
  /\ [](~generated.returned => ENABLED TaskStep)
  /\ []((tasks[Producer] = "running" /\ queued > 0
          /\ \A w \in Workers : tasks[w] \notin {"running", "rendering"}) => gCtxDone)
  /\ <>(tasks[Producer] # "running")
  /\ <>(generated.returned /\ AllTasksStopped)

C34_Witness ==
  /\ generated.returned
  /\ \A w \in Workers : tasks[w] = "failed"
  /\ tasks[Producer] = "ok"
  /\ tasks[Assets] = "ok" /\ tasks[Landing] = "ok" /\ tasks[Index] = "ok"
  /\ queued > 0
  /\ ~ctxDone

\* C35: every job taken off the channel is received by one worker and no more, is
\* rendered by no other and at most once; a job leaves the producer only by being
\* received; and when Generate returns with no task failed, every job of the
\* producer was received and its rendering returned nil exactly once.
C35_EachJobRenderedOnce ==
  /\ [](\A j \in 1..Len(received) :
          /\ received[j].receivers = 1
          /\ Cardinality(received[j].at) + received[j].rendered <= 1)
  /\ [][ queued' + Len(received') = queued + Len(received) ]_vars
  /\ []((generated.returned /\ ~SomeTaskFailed) =>
          /\ queued = 0
          /\ \A j \in 1..Len(received) :
               received[j].rendered = 1 /\ received[j].at = {})

C35_Witness ==
  /\ generated.returned
  /\ generated.err = <<>>
  /\ ~SomeTaskFailed
  /\ queued = 0
  /\ Len(received) = MaxJobs
  /\ \A j \in 1..Len(received) : received[j].rendered = 1

\* The tag references of the repository that name a stable Version: a v, a
\* semantic version and no pre-release label.
StableTags ==
  { p \in 1..Len(tagRefs) :
      /\ HasPrefixV(tagRefs[p].name)
      /\ NewVersion(tagRefs[p].name).ok
      /\ NewVersion(tagRefs[p].name).pre = "" }

\* C36: the module newModule returns has LatestVersion unset exactly when no tag
\* of the repository names a stable Version; otherwise LatestVersion is one of the
\* Versions of the module, built from a stable tag, and no stable tag names a
\* Version of higher precedence.
C36_LatestIsHighestStable ==
  (module.pc = "done" /\ modErr = <<>>) =>
    /\ module.LatestVersion = <<>> <=> StableTags = {}
    /\ module.LatestVersion # <<>> =>
         LET latest == module.LatestVersion[1]
         IN /\ latest \in Range(module.Versions)
            /\ latest.Commit \in StableTags
            /\ latest = NewModuleVersion(latest.Commit)
            /\ ~latest.IsPrerelease
            /\ \A p \in StableTags :
                 Compare(latest.Version, NewVersion(tagRefs[p].name)) >= 0

C36_Witness ==
  /\ module.pc = "done"
  /\ modErr = <<>>
  /\ Len(module.Versions) = 3
  /\ module.Versions[1].Tag = <<"v", "1", "1", "0", "-", "rc1">>
  /\ module.Versions[3].Tag = <<"v", "0", "2">>
  /\ module.LatestVersion = <<module.Versions[2]>>
  /\ module.LatestVersion[1].Tag = <<"v", "1", "0", "0">>

====
